---- MODULE Spec2Model ----
(***************************************************************************)
(* The ray caster of RayCastingDemo: class Character (src/Character.h) and *)
(* the host loop that drives it (src/Main.cpp).                            *)
(*                                                                         *)
(* Arithmetic.  World coordinates of the character centre are whole        *)
(* numbers in every state of the program (16 + 2k), and the traversal      *)
(* position (mapX, mapY) is an int.  The doubles of calcRays are held      *)
(* exactly, as integers up to a positive factor that is common to the two  *)
(* axes of one column (the code only compares them and divides one by the  *)
(* other):                                                                 *)
(*   rayDirX, rayDirY      times screenWidth * Scale                       *)
(*   deltaDistX, deltaDistY  see DeltaDist                                 *)
(*   sideDistX, sideDistY  times 32, in the unit of deltaDist              *)
(* A quotient whose exact value lies half way between two integers is      *)
(* rounded by std::round to either of them, depending on the rounding      *)
(* errors of the double operations before it: the model leaves that choice *)
(* open, and remembers it (roundMemo), the same operands giving the same   *)
(* result every time.                                                      *)
(* dirX, dirY, cameraPlaneX, cameraPlaneY are doubles: the model holds     *)
(* them to the nearest 1/Scale, Scale = RotDen^DirDigits, and rounds the   *)
(* result of every rotation to that precision, as the double operations    *)
(* of rotate round theirs to 53 bits.  rotate turns by the angle whose     *)
(* cosine and sine are CosNum/RotDen and SinNum/RotDen, standing for       *)
(* cos(0.01) and sin(0.01).                                                *)
(* The float coordinates of the draw vertices are held in units of         *)
(* 2^-FracBits with the 24 bit significand of a float.                     *)
(***************************************************************************)
EXTENDS Integers, Sequences, FiniteSets, TLC

\* ---------------------------------------------------------------- constants
BLOCK_WIDTH == 32
MOVEMENT_SPEED == 2
\* the character radius and the initial direction length given to the constructor
CharacterSize == 16
\* stands for 1e30, the step distance of a zero direction component
Sentinel == 1000000
\* significand width of a float
FloatDigits == 24
\* the rotation step: cos = CosNum/RotDen, sin = SinNum/RotDen
CosNum == 4
SinNum == 3
RotDen == 5

\* ------------------------------------------------------------------- bounds
\* rows and columns of worldMap
MapWidth == 4
MapHeight == 4
\* the screenWidth argument of calcRays
ScreenWidth == 4
\* materials are 0 (empty) and 1..MaxMaterial
MaxMaterial == 7
\* calls of calcRays followed in one behaviour of the casting specification
MaxFrames == 2
\* calls of rotate followed in one behaviour
MaxRotations == 2
\* fractional bits kept of a float
FracBits == 20
\* digits (base RotDen) kept of the fraction of dirX, dirY, cameraPlaneX, cameraPlaneY
DirDigits == 1
\* how far (in moves) the host loop follows the character away from its start
MaxWalk == 9
\* key events followed between two calls of calcRays
MaxEvents == 1
\* iterations of the while loop followed in one column
MaxIterations == 12

\* ------------------------------------------------------------- arithmetic
Abs(n) == IF n < 0 THEN -n ELSE n

RECURSIVE Pow(_, _)
Pow(b, e) == IF e <= 0 THEN 1 ELSE b * Pow(b, e - 1)

\* dirX etc. are held in units of 1/Scale
Scale == Pow(RotDen, DirDigits)

\* the integer nearest to n/d, d > 0 and odd
Nearest(n, d) == (2 * n + d) \div (2 * d)

\* 1.0f in the unit of the float coordinates
One == Pow(2, FracBits)

\* the % of C++ on ints (the quotient truncates toward zero)
Rem(a, b) == IF a >= 0 THEN a % b ELSE -((-a) % b)

\* is n/d, n >= 0, d > 0, half way between two integers
IsHalf(n, d) == (2 * n) % d = 0 /\ ((2 * n) \div d) % 2 = 1

\* std::round(n/d) for n >= 0, d > 0; up tells which way a half goes
Round(n, d, up) == IF IsHalf(n, d) THEN (n \div d) + up ELSE (2 * n + d) \div (2 * d)

\* ------------------------------------------------------------ float values
\* the unit in the last place of the float of magnitude m (in units of 2^-FracBits)
\* floats have significands below 2^FloatDigits
Significands == Pow(2, FloatDigits)

RECURSIVE UlpFrom(_, _)
UlpFrom(m, u) == IF m < Significands * u THEN u ELSE UlpFrom(m, 2 * u)

Ulp(m) == UlpFrom(Abs(m), 1)

\* the multiple of u nearest to n/d (d > 0), ties to the even multiple
NearestEven(n, d, u) ==
    LET q == n \div (d * u)
        r == n - q * d * u
    IN  IF 2 * r < d * u THEN q * u
        ELSE IF 2 * r > d * u THEN (q + 1) * u
        ELSE IF q % 2 = 0 THEN q * u ELSE (q + 1) * u

\* the float nearest to the exact value m
ToFloat(m) == NearestEven(m, 1, Ulp(m))

\* float + float
FloatAdd(a, b) == ToFloat(a + b)

\* float(a + n/Scale) for a float a: the float += double of rotate
FloatOfSum(a, n) ==
    LET ip == n \div Scale
        fp == n - ip * Scale
        base == a + ip * One
        u == Ulp(base + (fp * One) \div Scale)
        b1 == base \div u
        b0 == base - b1 * u
    IN  b1 * u + NearestEven(b0 * Scale + fp * One, Scale, u)

\* ------------------------------------------------------------------- state
VARIABLES
    worldMap,        \* worldMap[row][column], rows 0..MapHeight-1, columns 0..MapWidth-1
    center,          \* Character::center
    charObject,      \* position of the circle shape
    dirX, dirY,      \* direction, in units of 1/Scale
    cameraPlaneX, cameraPlaneY,
    directionRay,    \* the two draw vertices of the direction ray (floats)
    cameraPlane,     \* the two draw vertices of the camera plane (floats)
    hits,            \* Character::hits
    rayCasts,        \* Character::rayCasts
    pc,              \* where the program is: "idle" (the host loop, between two
                     \* calls), "for", "while", "hit" (inside calcRays), or
                     \* "undefined": checkForHit has read outside worldMap, the
                     \* behaviour of the program is undefined from there on and
                     \* is followed no further
    i,               \* loop variable of calcRays
    mapX, mapY,      \* locals of calcRays
    sideDistX, sideDistY,
    temp,
    iterations,      \* iterations of the while loop made for this column
    casts,           \* the local vector rayCasts of calcRays
    call,            \* the last call of checkForHit: arguments, record before
                     \* and after, result, and the cells it read, in order
    divByZero,       \* this call of calcRays has evaluated a division by zero
    frames,          \* calls of calcRays since the viewpoint last changed
    prevHits,        \* hits as the call before the last one left it, the viewpoint
                     \* being the same
    roundMemo,       \* how the halves met since the viewpoint last changed were rounded
    rotations,       \* calls of rotate so far
    events           \* key events handled since the last call of calcRays, up to MaxEvents

viewVars == <<center, charObject, dirX, dirY, cameraPlaneX, cameraPlaneY,
              directionRay, cameraPlane>>

castVars == <<pc, i, mapX, mapY, sideDistX, sideDistY, temp, iterations, casts, call,
              divByZero, frames, prevHits, roundMemo, hits, rayCasts>>

vars == <<worldMap, viewVars, castVars, rotations, events>>

\* hitDetails::Alignment
Alignments == {"horizontal", "vertical", "unknown"}

\* a default constructed hitDetails; distance is held as its square
NewHitDetails == [distanceSq |-> 0, color |-> 0, alignment |-> "unknown"]

NoCall == [xIndex |-> 0, yIndex |-> 0, before |-> NewHitDetails,
           after |-> NewHitDetails, hit |-> FALSE, reads |-> <<>>]

Vec(x, y) == [x |-> x, y |-> y]

\* ------------------------------------------------------------- worldMap
InMap(r, c) == r \in 0..(MapHeight - 1) /\ c \in 0..(MapWidth - 1)

IsBorder(r, c) == r = 0 \/ r = MapHeight - 1 \/ c = 0 \/ c = MapWidth - 1

\* worldMap[r][c]. A read outside the vectors is undefined behaviour: Traverse
\* ends in "undefined" when checkForHit makes one, and the 0 is never used
Cell(wm, r, c) == IF InMap(r, c) THEN wm[r][c] ELSE 0

\* ---------------------------------------------------------- checkForHit
\* xIndex and yIndex are held times 32 (mapX / 32.0f is exact)
IsWhole(index) == index % BLOCK_WIDTH = 0

Floor(index) == index \div BLOCK_WIDTH

\* the corner branch with the second and the third test exchanged
CheckCornerOtherOrder(x, y, hitDetail, wm) ==
    IF Cell(wm, y, x) # 0
    THEN [hit |-> TRUE,
          hitDetail |-> [hitDetail EXCEPT !.color = Cell(wm, y, x)],
          reads |-> << <<y, x>> >>]
    ELSE IF Cell(wm, y, x - 1) # 0
    THEN [hit |-> TRUE,
          hitDetail |-> [hitDetail EXCEPT !.color = Cell(wm, y, x - 1)],
          reads |-> << <<y, x>>, <<y, x - 1>> >>]
    ELSE IF Cell(wm, y - 1, x - 1) # 0
    THEN [hit |-> TRUE,
          hitDetail |-> [hitDetail EXCEPT !.color = Cell(wm, y - 1, x - 1)],
          reads |-> << <<y, x>>, <<y, x - 1>>, <<y - 1, x - 1>> >>]
    ELSE IF Cell(wm, y - 1, x) # 0
    THEN [hit |-> TRUE,
          hitDetail |-> [hitDetail EXCEPT !.color = Cell(wm, y - 1, x)],
          reads |-> << <<y, x>>, <<y, x - 1>>, <<y - 1, x - 1>>, <<y - 1, x>> >>]
    ELSE [hit |-> FALSE, hitDetail |-> hitDetail,
          reads |-> << <<y, x>>, <<y, x - 1>>, <<y - 1, x - 1>>, <<y - 1, x>> >>]

\* the corner branch, worldMap[y][x] first
CheckCorner(x, y, hitDetail, wm) ==
    IF Cell(wm, y, x) # 0
    THEN [hit |-> TRUE,
          hitDetail |-> [hitDetail EXCEPT !.color = Cell(wm, y, x)],
          reads |-> << <<y, x>> >>]
    ELSE IF Cell(wm, y - 1, x - 1) # 0
    THEN [hit |-> TRUE,
          hitDetail |-> [hitDetail EXCEPT !.color = Cell(wm, y - 1, x - 1)],
          reads |-> << <<y, x>>, <<y - 1, x - 1>> >>]
    ELSE IF Cell(wm, y, x - 1) # 0
    THEN [hit |-> TRUE,
          hitDetail |-> [hitDetail EXCEPT !.color = Cell(wm, y, x - 1)],
          reads |-> << <<y, x>>, <<y - 1, x - 1>>, <<y, x - 1>> >>]
    ELSE IF Cell(wm, y - 1, x) # 0
    THEN [hit |-> TRUE,
          hitDetail |-> [hitDetail EXCEPT !.color = Cell(wm, y - 1, x)],
          reads |-> << <<y, x>>, <<y - 1, x - 1>>, <<y, x - 1>>, <<y - 1, x>> >>]
    ELSE [hit |-> FALSE, hitDetail |-> hitDetail,
          reads |-> << <<y, x>>, <<y - 1, x - 1>>, <<y, x - 1>>, <<y - 1, x>> >>]

\* the branch of a vertical grid line: worldMap[y][x] || worldMap[y][x - 1]
CheckVertical(x, y, hitDetail, wm) ==
    IF Cell(wm, y, x) # 0
    THEN [hit |-> TRUE,
          hitDetail |-> [hitDetail EXCEPT !.alignment = "vertical",
                                          !.color = Cell(wm, y, x)],
          reads |-> << <<y, x>> >>]
    ELSE IF Cell(wm, y, x - 1) # 0
    THEN [hit |-> TRUE,
          hitDetail |-> [hitDetail EXCEPT !.alignment = "vertical",
                                          !.color = Cell(wm, y, x - 1)],
          reads |-> << <<y, x>>, <<y, x - 1>> >>]
    ELSE [hit |-> FALSE, hitDetail |-> hitDetail,
          reads |-> << <<y, x>>, <<y, x - 1>> >>]

\* checkForHit's horizontal branch without the test of worldMap[y][x] when the
\* colour is taken
CheckHorizontalFirstCell(x, y, hitDetail, wm) ==
    IF Cell(wm, y, x) # 0 \/ Cell(wm, y - 1, x) # 0
    THEN [hit |-> TRUE,
          hitDetail |-> [hitDetail EXCEPT !.alignment = "horizontal",
                                          !.color = Cell(wm, y, x)],
          reads |-> IF Cell(wm, y, x) # 0 THEN << <<y, x>> >>
                                          ELSE << <<y, x>>, <<y - 1, x>> >>]
    ELSE [hit |-> FALSE, hitDetail |-> hitDetail,
          reads |-> << <<y, x>>, <<y - 1, x>> >>]

\* the branch of a horizontal grid line: worldMap[y][x] || worldMap[y - 1][x]
CheckHorizontal(x, y, hitDetail, wm) ==
    IF Cell(wm, y, x) # 0
    THEN [hit |-> TRUE,
          hitDetail |-> [hitDetail EXCEPT !.alignment = "horizontal",
                                          !.color = Cell(wm, y, x)],
          reads |-> << <<y, x>> >>]
    ELSE IF Cell(wm, y - 1, x) # 0
    THEN [hit |-> TRUE,
          hitDetail |-> [hitDetail EXCEPT !.alignment = "horizontal",
                                          !.color = Cell(wm, y - 1, x)],
          reads |-> << <<y, x>>, <<y - 1, x>> >>]
    ELSE [hit |-> FALSE, hitDetail |-> hitDetail,
          reads |-> << <<y, x>>, <<y - 1, x>> >>]

CheckForHit(xIndex, yIndex, hitDetail, wm) ==
    IF IsWhole(xIndex) /\ IsWhole(yIndex)
    THEN CheckCorner(Floor(xIndex), Floor(yIndex), hitDetail, wm)
    ELSE IF IsWhole(xIndex)
    THEN CheckVertical(Floor(xIndex), Floor(yIndex), hitDetail, wm)
    ELSE IF IsWhole(yIndex)
    THEN CheckHorizontal(Floor(xIndex), Floor(yIndex), hitDetail, wm)
    ELSE [hit |-> FALSE, hitDetail |-> hitDetail, reads |-> <<>>]

\* ------------------------------------------------------ calcNewDistance
\* calcNewDistance without the case of a vertex on a grid line and a negative direction
CalcNewDistanceNoLineCase(vertex, rayDir, deltaDist) ==
    LET distance == Rem(vertex, BLOCK_WIDTH)
    IN  IF rayDir >= 0
        THEN (IF BLOCK_WIDTH - distance = 0 THEN BLOCK_WIDTH
                                            ELSE BLOCK_WIDTH - distance) * deltaDist
        ELSE distance * deltaDist

\* (distance / BLOCK_WIDTH) * deltaDist, times 32
CalcNewDistance(vertex, rayDir, deltaDist) ==
    LET distance == Rem(vertex, BLOCK_WIDTH)
    IN  IF rayDir < 0 /\ distance = 0
        THEN BLOCK_WIDTH * deltaDist
        ELSE IF rayDir >= 0
        THEN (IF BLOCK_WIDTH - distance = 0 THEN BLOCK_WIDTH
                                            ELSE BLOCK_WIDTH - distance) * deltaDist
        ELSE distance * deltaDist

\* ----------------------------------------------------- the rays of calcRays
\* dir + cameraPlane * cameraX with cameraX = 2 * i / screenWidth - 1,
\* times screenWidth (and Scale)
RayDir(dir, plane, col) == dir * ScreenWidth + plane * (2 * col - ScreenWidth)

\* deltaDistX of the ray (rx, ry), deltaDistY of it as DeltaDist(ry, rx):
\* 1e30 for a zero component, else 32 * hypoLength / |rx|, negated for rx < 0.
\* The factor dropped is hypoLength / (|rx| * |ry|) * 32 when both components
\* are not zero, and 1 when one is zero (hypoLength is then the other's size).
DeltaDist(rx, ry) ==
    LET size == IF rx = 0 THEN Sentinel
                ELSE IF ry = 0 THEN BLOCK_WIDTH
                ELSE Abs(ry)
    IN  IF rx < 0 THEN -size ELSE size

\* the initial side distance (lines 333-336), times 32
InitSideDist(c, rayDir, deltaDist) ==
    IF rayDir < 0 THEN Rem(c, BLOCK_WIDTH) * deltaDist
                  ELSE (BLOCK_WIDTH - Rem(c, BLOCK_WIDTH)) * deltaDist

\* ----------------------------------------------------------- calcRays
RayDirX == RayDir(dirX, cameraPlaneX, i)
RayDirY == RayDir(dirY, cameraPlaneY, i)
DeltaDistX == DeltaDist(RayDirX, RayDirY)
DeltaDistY == DeltaDist(RayDirY, RayDirX)

\* outside calcRays its locals do not exist
NoLocals ==
    /\ i = 0
    /\ mapX = 0
    /\ mapY = 0
    /\ sideDistX = 0
    /\ sideDistY = 0
    /\ temp = NewHitDetails
    /\ iterations = 0
    /\ casts = <<>>
    /\ call = NoCall
    /\ divByZero = FALSE

DropLocals ==
    /\ i' = 0
    /\ mapX' = 0
    /\ mapY' = 0
    /\ sideDistX' = 0
    /\ sideDistY' = 0
    /\ temp' = NewHitDetails
    /\ iterations' = 0
    /\ casts' = <<>>
    /\ call' = NoCall
    /\ divByZero' = FALSE

\* a call of calcRays that does not clear hits
CalcRaysCallNoClear ==
    /\ pc = "idle"
    /\ frames' = IF frames < MaxFrames THEN frames + 1 ELSE frames
    /\ prevHits' = IF frames = 0 THEN <<>> ELSE hits
    /\ casts' = <<>>
    /\ i' = 0
    /\ pc' = "for"
    /\ events' = 0
    /\ UNCHANGED <<worldMap, viewVars, rotations, mapX, mapY, sideDistX, sideDistY,
                   temp, iterations, call, divByZero, roundMemo, rayCasts, hits>>

\* the call of draw2DWindow (Main.cpp line 182) enters calcRays: hits.clear()
CalcRaysCall ==
    /\ pc = "idle"
    /\ frames' = IF frames < MaxFrames THEN frames + 1 ELSE frames
    /\ prevHits' = IF frames = 0 THEN <<>> ELSE hits
    /\ hits' = <<>>
    /\ casts' = <<>>
    /\ i' = 0
    /\ pc' = "for"
    /\ events' = 0
    /\ UNCHANGED <<worldMap, viewVars, rotations, mapX, mapY, sideDistX, sideDistY,
                   temp, iterations, call, divByZero, roundMemo, rayCasts>>

\* a for loop that stops one column early
ForConditionExclusive == i < ScreenWidth

\* the condition of the for loop (line 310)
ForCondition == i <= ScreenWidth

\* the head of the for loop and the body up to the while loop (lines 310-340)
ColumnStart ==
    /\ pc = "for"
    /\ ForCondition
    /\ mapX' = center.x
    /\ mapY' = center.y
    \* lines 323, 324 divide by |rayDirX| and |rayDirY| before they are tested
    /\ divByZero' = (divByZero \/ RayDirX = 0 \/ RayDirY = 0)
    /\ sideDistX' = InitSideDist(center.x, RayDirX, DeltaDistX)
    /\ sideDistY' = InitSideDist(center.y, RayDirY, DeltaDistY)
    /\ temp' = NewHitDetails
    /\ iterations' = 0
    /\ pc' = "while"
    /\ UNCHANGED <<worldMap, viewVars, rotations, events, i, casts, call, frames,
                   prevHits, roundMemo, hits, rayCasts>>

\* has the last call of checkForHit read outside worldMap
OutOfRange(reads) == \E k \in 1..Len(reads) : ~InMap(reads[k][1], reads[k][2])

\* the halves of this iteration: operands and which coordinate is rounded
MemoKey(adjustmentDistance, axis) == <<RayDirX, RayDirY, adjustmentDistance, axis>>

\* the side distance of the farther grid line
AdjustmentDistanceFarther ==
    IF Abs(sideDistX) >= Abs(sideDistY) THEN sideDistX ELSE sideDistY

\* the side distance of the nearer grid line, sideDistX when they are equal (line 344)
AdjustmentDistance ==
    IF Abs(sideDistX) <= Abs(sideDistY) THEN sideDistX ELSE sideDistY

\* a hit of unknown alignment that is left unknown in every column
InheritNever(res, col, hs) == res.hitDetail

\* the record after lines 364-367: a hit of unknown alignment in a column other
\* than the first takes the alignment of hits[i - 1] (hs[col], hs counting from 1)
Inherit(res, col, hs) ==
    IF col # 0 /\ res.hit /\ res.hitDetail.alignment = "unknown"
    THEN [res.hitDetail EXCEPT !.alignment = hs[col].alignment]
    ELSE res.hitDetail

\* one iteration of the while loop (lines 341-368)
Traverse ==
    /\ pc = "while"
    /\ iterations < MaxIterations
    /\ iterations' = iterations + 1
    /\ \E upX \in {0, 1}, upY \in {0, 1} :
        LET adjustmentDistance == AdjustmentDistance
            halfX == IsHalf(Abs(adjustmentDistance), Abs(DeltaDistX))
            halfY == IsHalf(Abs(adjustmentDistance), Abs(DeltaDistY))
            keyX == MemoKey(adjustmentDistance, "x")
            keyY == MemoKey(adjustmentDistance, "y")
            newX == mapX + (IF DeltaDistX > 0 THEN 1 ELSE -1)
                           * Round(Abs(adjustmentDistance), Abs(DeltaDistX), upX)
            newY == mapY + (IF DeltaDistY > 0 THEN 1 ELSE -1)
                           * Round(Abs(adjustmentDistance), Abs(DeltaDistY), upY)
            res == CheckForHit(newX, newY, temp, worldMap)
            inherited == Inherit(res, i, hits)
        IN  /\ IF halfX
               THEN keyX \in DOMAIN roundMemo => upX = roundMemo[keyX]
               ELSE upX = 0
            /\ IF halfY
               THEN keyY \in DOMAIN roundMemo => upY = roundMemo[keyY]
               ELSE upY = 0
            /\ roundMemo' = (IF halfX THEN keyX :> upX ELSE <<>>)
                            @@ (IF halfY THEN keyY :> upY ELSE <<>>)
                            @@ roundMemo
            /\ mapX' = newX
            /\ mapY' = newY
            /\ sideDistX' = CalcNewDistance(newX, RayDirX, DeltaDistX)
            /\ sideDistY' = CalcNewDistance(newY, RayDirY, DeltaDistY)
            /\ call' = [xIndex |-> newX, yIndex |-> newY, before |-> temp,
                        after |-> res.hitDetail, hit |-> res.hit, reads |-> res.reads]
            /\ temp' = inherited
            /\ pc' = IF OutOfRange(res.reads) THEN "undefined"
                     ELSE IF res.hit THEN "hit" ELSE "while"
    /\ UNCHANGED <<worldMap, viewVars, rotations, events, i, casts, divByZero,
                   frames, prevHits, hits, rayCasts>>

\* the rest of the body of the for loop (lines 369-377) and ++i
ColumnEnd ==
    /\ pc = "hit"
    /\ LET distanceSq == (center.x - mapX) * (center.x - mapX)
                         + (center.y - mapY) * (center.y - mapY)
       IN  hits' = Append(hits, [temp EXCEPT !.distanceSq = distanceSq])
    /\ casts' = Append(casts, Vec(mapX, mapY))
    /\ i' = i + 1
    /\ pc' = "for"
    /\ UNCHANGED <<worldMap, viewVars, rotations, events, mapX, mapY, sideDistX,
                   sideDistY, temp, iterations, call, divByZero, frames, prevHits,
                   roundMemo, rayCasts>>

\* the for loop ends, calcRays returns; draw2DWindow assigns the result
CalcRaysReturn ==
    /\ pc = "for"
    /\ ~ForCondition
    /\ rayCasts' = casts
    /\ pc' = "idle"
    /\ DropLocals
    /\ UNCHANGED <<worldMap, viewVars, rotations, frames, prevHits, roundMemo,
                   hits, events>>

CalcRays == CalcRaysCall \/ ColumnStart \/ Traverse \/ ColumnEnd \/ CalcRaysReturn

\* ------------------------------------------------------------ Character
\* getCharacterCenter(): the position of the shape plus characterRadius
GetCharacterCenter == Vec(charObject.x + CharacterSize, charObject.y + CharacterSize)

\* a whole number of world units as a float
Whole(n) == n * One

FloatVec(v) == Vec(Whole(v.x), Whole(v.y))

\* the vertices the constructor computes (lines 86-91) for a centre c
DirectionRayOf(c, dx, dy) ==
    << FloatVec(c), Vec(FloatOfSum(Whole(c.x), dx), FloatOfSum(Whole(c.y), dy)) >>

CameraPlaneOf(c, dx, dy, px, py) ==
    LET directionRayEnd == DirectionRayOf(c, dx, dy)[2]
    IN  << Vec(FloatOfSum(directionRayEnd.x, -px), FloatOfSum(directionRayEnd.y, -py)),
           Vec(FloatOfSum(directionRayEnd.x, px), FloatOfSum(directionRayEnd.y, py)) >>

\* x * cos - y * sin and x * sin + y * cos for the angle spinDir * 0.01,
\* rounded to the precision of the result
RotateX(x, y, spinDir) == Nearest(x * CosNum - y * spinDir * SinNum, RotDen)

\* the new y computed from the x rotate has already replaced
RotateYFromNewX(x, y, spinDir) ==
    Nearest(RotateX(x, y, spinDir) * spinDir * SinNum + y * CosNum, RotDen)

RotateY(x, y, spinDir) == Nearest(x * spinDir * SinNum + y * CosNum, RotDen)

\* a key event: what is remembered of the calls of calcRays with the viewpoint
\* as it was is dropped
ViewpointChanged ==
    /\ events' = IF events < MaxEvents THEN events + 1 ELSE events
    /\ frames' = 0
    /\ prevHits' = <<>>
    /\ roundMemo' = <<>>

\* rotate(dir), dir LEFT or RIGHT (lines 128-155)
Rotate(dir) ==
    /\ pc = "idle"
    /\ rotations < MaxRotations
    /\ rotations' = rotations + 1
    /\ LET spinDir == IF dir = "LEFT" THEN -1 ELSE 1
           newDirX == RotateX(dirX, dirY, spinDir)
           newDirY == RotateY(dirX, dirY, spinDir)
           newPlaneX == RotateX(cameraPlaneX, cameraPlaneY, spinDir)
           newPlaneY == RotateY(cameraPlaneX, cameraPlaneY, spinDir)
           directionRayEnd == Vec(FloatOfSum(Whole(GetCharacterCenter.x), newDirX),
                                  FloatOfSum(Whole(GetCharacterCenter.y), newDirY))
           endPlanePosition == Vec(FloatOfSum(directionRayEnd.x, newPlaneX),
                                   FloatOfSum(directionRayEnd.y, newPlaneY))
       IN  /\ dirX' = newDirX
           /\ dirY' = newDirY
           /\ cameraPlaneX' = newPlaneX
           /\ cameraPlaneY' = newPlaneY
           /\ directionRay' = << FloatVec(GetCharacterCenter), directionRayEnd >>
           /\ cameraPlane' = << directionRayEnd, endPlanePosition >>
    /\ ViewpointChanged
    /\ UNCHANGED <<worldMap, center, charObject, pc, i, mapX, mapY, sideDistX,
                   sideDistY, temp, iterations, casts, call, divByZero, hits, rayCasts>>

\* LEFT moving the way of RIGHT
XAdjustmentSameSign(direction) ==
    IF direction = "LEFT" \/ direction = "RIGHT" THEN MOVEMENT_SPEED ELSE 0

\* the adjustments of updateMovement(direction)
XAdjustment(direction) ==
    IF direction = "LEFT" THEN -MOVEMENT_SPEED
    ELSE IF direction = "RIGHT" THEN MOVEMENT_SPEED ELSE 0

YAdjustment(direction) ==
    IF direction = "UP" THEN -MOVEMENT_SPEED
    ELSE IF direction = "DOWN" THEN MOVEMENT_SPEED ELSE 0

\* a draw vertex moved by the adjustments (lines 191-194)
MoveVertex(v, direction) ==
    Vec(FloatAdd(v.x, Whole(XAdjustment(direction))),
        FloatAdd(v.y, Whole(YAdjustment(direction))))

\* the host loop is followed MaxWalk moves from the start on each axis
InWalk(c) ==
    Abs(c.x - CharacterSize) + Abs(c.y - CharacterSize) <= MaxWalk * MOVEMENT_SPEED

\* the character: what rotate and updateMovement read and write
View == [center |-> center, charObject |-> charObject,
         dirX |-> dirX, dirY |-> dirY,
         cameraPlaneX |-> cameraPlaneX, cameraPlaneY |-> cameraPlaneY,
         directionRay |-> directionRay, cameraPlane |-> cameraPlane]

\* the character v after updateMovement(direction) (lines 163-195): move() of the
\* shape, center, and the four draw vertices; there is no test of the map
Moved(v, direction) ==
    [v EXCEPT
        !.charObject = Vec(v.charObject.x + XAdjustment(direction),
                           v.charObject.y + YAdjustment(direction)),
        !.center = Vec(v.center.x + XAdjustment(direction),
                       v.center.y + YAdjustment(direction)),
        !.cameraPlane = << MoveVertex(v.cameraPlane[1], direction),
                           MoveVertex(v.cameraPlane[2], direction) >>,
        !.directionRay = << MoveVertex(v.directionRay[1], direction),
                            MoveVertex(v.directionRay[2], direction) >>]

UpdateMovement(direction) ==
    /\ pc = "idle"
    /\ InWalk(Moved(View, direction).center)
    /\ center' = Moved(View, direction).center
    /\ charObject' = Moved(View, direction).charObject
    /\ cameraPlane' = Moved(View, direction).cameraPlane
    /\ directionRay' = Moved(View, direction).directionRay
    /\ ViewpointChanged
    /\ UNCHANGED <<worldMap, dirX, dirY, cameraPlaneX, cameraPlaneY, rotations, pc, i,
                   mapX, mapY, sideDistX, sideDistY, temp, iterations, casts, call,
                   divByZero, hits, rayCasts>>

\* -------------------------------------------------------------- the maps
\* the material of a wall at (r, c)
MaterialAt(r, c) == 1 + ((r * MapWidth + c) % MaxMaterial)

\* a map whose border cells are all walls and whose other walls are at the cells of S
Bordered(S) ==
    [r \in 0..(MapHeight - 1) |->
        [c \in 0..(MapWidth - 1) |->
            IF IsBorder(r, c) \/ <<r, c>> \in S THEN MaterialAt(r, c) ELSE 0]]

\* the four cells around the first inner corner
Block == {rc \in (1..2) \X (1..2) : ~IsBorder(rc[1], rc[2])}

CastMaps == {Bordered(S) : S \in SUBSET Block}

HostMaps == {Bordered({})}

\* ------------------------------------------------------- specifications
\* the locals of calcRays before the first call
IdleCast ==
    /\ pc = "idle"
    /\ NoLocals
    /\ events = 0
    /\ frames = 0
    /\ prevHits = <<>>
    /\ roundMemo = <<>>
    /\ hits = <<>>
    /\ rayCasts = <<>>
    /\ rotations = 0

\* a character whose centre is c, direction (dx, dy), camera plane (px, py)
Viewpoint(c, dx, dy, px, py) ==
    /\ center = c
    /\ charObject = Vec(c.x - CharacterSize, c.y - CharacterSize)
    /\ dirX = dx
    /\ dirY = dy
    /\ cameraPlaneX = px
    /\ cameraPlaneY = py
    /\ directionRay = DirectionRayOf(c, dx, dy)
    /\ cameraPlane = CameraPlaneOf(c, dx, dy, px, py)

\* main(): Character character(16.f, -16, 0, 0, 16, ...) and a map with a border
Init ==
    /\ worldMap \in HostMaps
    /\ Viewpoint(Vec(CharacterSize, CharacterSize),
                 -CharacterSize * Scale, 0, 0, CharacterSize * Scale)
    /\ IdleCast

Directions == {"UP", "DOWN", "LEFT", "RIGHT"}

Spins == {"LEFT", "RIGHT"}

\* the host loop: the key events polled (at most MaxEvents of them are followed
\* between two frames), then draw2DWindow
Next ==
    \/ \E direction \in Directions : events < MaxEvents /\ UpdateMovement(direction)
    \/ \E dir \in Spins : events < MaxEvents /\ Rotate(dir)
    \/ CalcRays

Spec == Init /\ [][Next]_vars

\* ---- calcRays alone, over maps with a border and viewpoints in inner cells
CellOffsets == {0, 7, 16}

InnerXs == {BLOCK_WIDTH * c + o : c \in 1..(MapWidth - 2), o \in CellOffsets}

InnerYs == {BLOCK_WIDTH * r + o : r \in 1..(MapHeight - 2), o \in CellOffsets}

\* direction and camera plane, in world units times 5
Views ==
    { <<-80, 0, 0, 80>>,       \* the constructor's
      <<80, 0, 0, 40>>,        \* facing right, narrow plane
      <<0, 80, -80, 0>>,       \* facing down
      <<-64, -48, -48, 64>>,   \* the constructor's, turned
      <<40, 80, 80, 0>> }      \* plane not perpendicular: a ray straight down

InitCast ==
    /\ worldMap \in CastMaps
    /\ \E x \in InnerXs, y \in InnerYs, v \in Views :
           Viewpoint(Vec(x, y), v[1] * (Scale \div RotDen), v[2] * (Scale \div RotDen),
                     v[3] * (Scale \div RotDen), v[4] * (Scale \div RotDen))
    /\ IdleCast

SpecCast == InitCast /\ [][CalcRays]_vars

\* ---- the key events alone
NextMove ==
    \/ \E direction \in Directions : UpdateMovement(direction)
    \/ \E dir \in Spins : Rotate(dir)

SpecMove == Init /\ [][NextMove]_vars

\* ------------------------------------------------------------------ claims
\* the strike positions that go with hits: the local vector during a call, the
\* member once the call has returned
Strikes == IF pc = "idle" THEN rayCasts ELSE casts

\* the cells next to the position (x, y): the four around a corner, the two on
\* both sides of the one grid line the position is on
CellsAround(x, y) ==
    IF IsWhole(x) /\ IsWhole(y)
    THEN { <<Floor(y), Floor(x)>>, <<Floor(y) - 1, Floor(x) - 1>>,
           <<Floor(y), Floor(x) - 1>>, <<Floor(y) - 1, Floor(x)>> }
    ELSE IF IsWhole(x) THEN { <<Floor(y), Floor(x)>>, <<Floor(y), Floor(x) - 1>> }
    ELSE IF IsWhole(y) THEN { <<Floor(y), Floor(x)>>, <<Floor(y) - 1, Floor(x)>> }
    ELSE {}

\* C1: in a grid whose border cells are all occupied and from a position inside
\* the ring of border cells, the while loop of every column 0..screenWidth ends
\* with a hit, and every call of calcRays returns.
C1_TraversalTerminates ==
    /\ pc # "undefined"
    /\ pc = "while" => iterations < MapWidth + MapHeight

\* a call has returned in which a ray crossed more than one cell before its hit
C1_Witness ==
    /\ pc = "idle"
    /\ frames > 0
    /\ Len(hits) = ScreenWidth + 1
    /\ \E k \in 1..Len(hits) : hits[k].distanceSq > BLOCK_WIDTH * BLOCK_WIDTH

\* C2: in the host loop every cell checkForHit reads is inside worldMap,
\* whatever translations and rotations came before the frame.
C2_ReadsInRange == pc # "undefined" /\ ~OutOfRange(call.reads)

\* C3: every hit calcRays records has a distance greater than 0, also from a
\* position on a grid line next to a wall.
C3_DistancePositive == \A k \in 1..Len(hits) : hits[k].distanceSq > 0

\* C4: every hit calcRays records has a material that is not 0 and is the
\* worldMap value of a cell next to the strike position: one of the two on both
\* sides of the grid line, or one of the four around the corner.
C4_MaterialOfAdjacentCell ==
    /\ Len(Strikes) = Len(hits)
    /\ \A k \in 1..Len(hits) :
        /\ hits[k].color # 0
        /\ \E rc \in CellsAround(Strikes[k].x, Strikes[k].y) :
            /\ InMap(rc[1], rc[2])
            /\ worldMap[rc[1]][rc[2]] = hits[k].color

\* a recorded hit at a corner whose first cell, worldMap[y][x], is empty
C4_Witness ==
    /\ pc = "idle"
    /\ \E k \in 1..Len(hits) :
        /\ IsWhole(rayCasts[k].x) /\ IsWhole(rayCasts[k].y)
        /\ worldMap[Floor(rayCasts[k].y)][Floor(rayCasts[k].x)] = 0
        /\ hits[k].color # 0

\* C5: when calcRays has returned, hits holds screenWidth + 1 results, the k-th
\* the result of column k (its strike lies where the ray of column k points, at
\* the recorded distance), whatever hits held before the call; during the call
\* hits holds the results of the columns done so far.
C5_OneResultPerColumn ==
    /\ pc \in {"for", "while", "hit"} => Len(hits) = i /\ Len(casts) = i
    /\ pc = "idle" /\ frames > 0 =>
        /\ Len(hits) = ScreenWidth + 1
        /\ Len(rayCasts) = ScreenWidth + 1
        /\ \A k \in 1..(ScreenWidth + 1) :
            /\ hits[k].distanceSq =
                   (center.x - rayCasts[k].x) * (center.x - rayCasts[k].x)
                   + (center.y - rayCasts[k].y) * (center.y - rayCasts[k].y)
            /\ (rayCasts[k].x - center.x) * RayDir(dirX, cameraPlaneX, k - 1) >= 0
            /\ (rayCasts[k].y - center.y) * RayDir(dirY, cameraPlaneY, k - 1) >= 0

\* the second call in a row has returned: hits held screenWidth + 1 results
\* when it began
C5_Witness ==
    /\ pc = "idle"
    /\ frames = 2
    /\ Len(prevHits) = ScreenWidth + 1
    /\ Len(hits) = ScreenWidth + 1

\* C6: for a column whose ray has a zero component calcRays divides by no zero,
\* and the hit that ends the traversal has a material that is not 0.
C6_ZeroComponentNoDivision ==
    (pc \in {"while", "hit"} /\ (RayDirX = 0 \/ RayDirY = 0)) =>
        (~divByZero /\ (pc = "hit" => temp.color # 0))

\* the squared length the constructor gives direction and camera plane
InitialLengthSq == (CharacterSize * Scale) * (CharacterSize * Scale)

\* what the roundings of n rotations can change in a squared length or in the
\* scalar product: each rotation moves a vector by less than one unit
RotationTolerance(n) == n * (2 * CharacterSize * Scale + n)

C8_SameResultTwice ==
    /\ [](pc = "idle" /\ frames >= 2 => hits = prevHits)
    /\ [][UNCHANGED <<worldMap, viewVars>>]_vars

\* the second call in a row has returned, and a half way quotient was rounded in it
C8_Witness ==
    /\ pc = "idle"
    /\ frames = 2
    /\ DOMAIN roundMemo # {}
    /\ hits = prevHits
    /\ hits # <<>>

Opposite(direction) ==
    CASE direction = "UP" -> "DOWN"
      [] direction = "DOWN" -> "UP"
      [] direction = "LEFT" -> "RIGHT"
      [] direction = "RIGHT" -> "LEFT"

\* UP, DOWN, LEFT, RIGHT change center by (0, -2), (0, 2), (-2, 0), (2, 0)
OneCoordinate(direction) ==
    LET m == Moved(View, direction)
    IN  /\ m.center.x - center.x =
               (IF direction = "LEFT" THEN -MOVEMENT_SPEED
                ELSE IF direction = "RIGHT" THEN MOVEMENT_SPEED ELSE 0)
        /\ m.center.y - center.y =
               (IF direction = "UP" THEN -MOVEMENT_SPEED
                ELSE IF direction = "DOWN" THEN MOVEMENT_SPEED ELSE 0)

\* the float b is the float v up to one unit in the last place of |v| + MOVEMENT_SPEED
Near(b, v) == Abs(b - v) <= Ulp(Abs(v) + Whole(MOVEMENT_SPEED))

NearVec(b, v) == Near(b.x, v.x) /\ Near(b.y, v.y)

\* C9 as stated: a move followed by the opposite move gives back center, the
\* position of the shape, the four draw vertices, direction and camera plane;
\* one move changes one coordinate of center by 2.
C9_RoundTripExact ==
    \A direction \in Directions :
        /\ Moved(Moved(View, direction), Opposite(direction)) = View
        /\ OneCoordinate(direction)

\* C9: a move followed by the opposite move gives back center, the position of
\* the shape, direction and camera plane, and every coordinate of the four draw
\* vertices up to one unit in the last place (exactly as long as the character
\* has not turned); one move changes one coordinate of center by 2.
C9_RoundTripWithinRounding ==
    \A direction \in Directions :
        LET back == Moved(Moved(View, direction), Opposite(direction))
        IN  /\ rotations = 0 => back = View
            /\ back.center = center
            /\ back.charObject = charObject
            /\ back.dirX = dirX /\ back.dirY = dirY
            /\ back.cameraPlaneX = cameraPlaneX /\ back.cameraPlaneY = cameraPlaneY
            /\ \A k \in 1..2 :
                /\ NearVec(back.directionRay[k], directionRay[k])
                /\ NearVec(back.cameraPlane[k], cameraPlane[k])
            /\ OneCoordinate(direction)

\* the character has turned and moved, and a draw vertex does not come back
C9_Witness ==
    /\ rotations > 0
    /\ center # Vec(CharacterSize, CharacterSize)
    /\ \E direction \in Directions :
           Moved(Moved(View, direction), Opposite(direction)) # View

\* the cells checkForHit tests at (xIndex, yIndex), in the order of the tests
CellsInOrder(xIndex, yIndex) ==
    LET x == Floor(xIndex)
        y == Floor(yIndex)
    IN  IF IsWhole(xIndex) /\ IsWhole(yIndex)
        THEN << <<y, x>>, <<y - 1, x - 1>>, <<y, x - 1>>, <<y - 1, x>> >>
        ELSE IF IsWhole(xIndex) THEN << <<y, x>>, <<y, x - 1>> >>
        ELSE IF IsWhole(yIndex) THEN << <<y, x>>, <<y - 1, x>> >>
        ELSE << >>

\* C10: checkForHit tests, in order, [y][x], [y-1][x-1], [y][x-1], [y-1][x] at
\* a corner, [y][x], [y][x-1] on a vertical line, [y][x], [y-1][x] on a
\* horizontal line, and nothing elsewhere; it stops at the first cell that is
\* not 0 and reports its material, with the alignment unknown, vertical,
\* horizontal; when every cell tested is 0 it reports no hit and leaves the
\* record as it was.
C10_Classification ==
    call # NoCall =>
        LET cells == CellsInOrder(call.xIndex, call.yIndex)
            walls == {k \in 1..Len(cells) :
                          Cell(worldMap, cells[k][1], cells[k][2]) # 0}
        IN  IF walls = {}
            THEN /\ ~call.hit
                 /\ call.reads = cells
                 /\ call.after = call.before
            ELSE LET first == CHOOSE k \in walls : \A j \in walls : k <= j
                 IN  /\ call.hit
                     /\ call.reads = SubSeq(cells, 1, first)
                     /\ call.after.color =
                            Cell(worldMap, cells[first][1], cells[first][2])
                     /\ call.after.distanceSq = call.before.distanceSq
                     /\ call.after.alignment =
                            (IF IsWhole(call.xIndex) /\ IsWhole(call.yIndex)
                             THEN "unknown"
                             ELSE IF IsWhole(call.xIndex) THEN "vertical"
                             ELSE "horizontal")
                     /\ IsWhole(call.xIndex) /\ IsWhole(call.yIndex)
                            => call.after.alignment = call.before.alignment

\* a hit at a corner that the second or a later test found
C10_Witness ==
    /\ call.hit
    /\ IsWhole(call.xIndex) /\ IsWhole(call.yIndex)
    /\ Len(call.reads) >= 2

\* is the strike of the k-th result at a corner of the grid
AtCorner(k) == IsWhole(Strikes[k].x) /\ IsWhole(Strikes[k].y)

\* C11: the result of a column other than the first whose hit is at a corner
\* (alignment unknown from checkForHit) has the alignment recorded for the
\* column before it in the same call; in the first column it stays unknown;
\* so an unknown alignment at a column means unknown at every column before it.
C11_AlignmentInherited ==
    /\ Len(Strikes) = Len(hits)
    /\ \A k \in 1..Len(hits) :
        /\ AtCorner(k) /\ k = 1 => hits[k].alignment = "unknown"
        /\ AtCorner(k) /\ k > 1 => hits[k].alignment = hits[k - 1].alignment
        /\ ~AtCorner(k) => hits[k].alignment =
               (IF IsWhole(Strikes[k].x) THEN "vertical" ELSE "horizontal")
        /\ hits[k].alignment = "unknown" =>
               \A j \in 1..k : hits[j].alignment = "unknown"

\* a corner hit that took a vertical or horizontal alignment from the column
\* before it, which did not hit at a corner
C11_Witness ==
    /\ pc = "idle"
    /\ \E k \in 2..Len(hits) :
        /\ AtCorner(k)
        /\ ~AtCorner(k - 1)
        /\ hits[k].alignment # "unknown"

\* the step of the iteration being made, along the ray, on the axis the
\* iteration chooses (x when |sideDistX| <= |sideDistY|)
AdvanceOnChosenAxis ==
    IF Abs(sideDistX) <= Abs(sideDistY)
    THEN (mapX' - mapX) * (IF DeltaDistX > 0 THEN 1 ELSE -1)
    ELSE (mapY' - mapY) * (IF DeltaDistY > 0 THEN 1 ELSE -1)

\* C12: every iteration of the while loop, the first of a column included,
\* moves (mapX, mapY) by at least one world unit along the ray on the axis it
\* chooses, also from a position on a grid line with the ray heading in the
\* negative direction of that axis.
C12_StrictAdvance == [][pc = "while" => AdvanceOnChosenAxis >= 1]_vars

\* from the coordinate v, how far the next grid line is in the direction sign
ToNextLine(v, sign) ==
    IF sign > 0 THEN BLOCK_WIDTH - (v % BLOCK_WIDTH)
    ELSE IF v % BLOCK_WIDTH = 0 THEN BLOCK_WIDTH ELSE v % BLOCK_WIDTH

\* the step just made on one axis is along the ray and not beyond the next grid line
WithinNextLine(v, w, deltaDist) ==
    LET sign == IF deltaDist > 0 THEN 1 ELSE -1
    IN  (w - v) * sign >= 0 /\ (w - v) * sign <= ToNextLine(v, sign)

\* C13: from a viewpoint at whole coordinates inside the grid, after every
\* iteration of the while loop the position is on a grid line on the axis the
\* iteration chose (the one with the smaller |sideDist|, x when they are
\* equal) and on the other axis it has moved along the ray no further than the
\* next grid line; so every position checkForHit is given has a coordinate
\* that is a multiple of 32.
C13_LineToLine ==
    /\ [](call # NoCall => IsWhole(call.xIndex) \/ IsWhole(call.yIndex))
    /\ [][pc = "while" =>
              IF Abs(sideDistX) <= Abs(sideDistY)
              THEN IsWhole(mapX') /\ WithinNextLine(mapY, mapY', DeltaDistY)
              ELSE IsWhole(mapY') /\ WithinNextLine(mapX, mapX', DeltaDistX)]_vars

\* a second or later iteration has put x on a grid line and moved y to a
\* place between two grid lines
C13_Witness ==
    /\ pc \in {"while", "hit"}
    /\ iterations >= 2
    /\ IsWhole(mapX)
    /\ ~IsWhole(mapY)
    /\ mapY # center.y

====
